---- MODULE Spec2Model ----
(***************************************************************************)
(* A model of gitdocs' local caching, retry and commit-ticket mapping      *)
(* layer:                                                                  *)
(*   - gitdocs/store/cache.py      Cache (TTL cache over a diskcache store) *)
(*   - gitdocs/atlassian/*_client.py  the tenacity retry wrapper of the     *)
(*                                 Jira and Confluence HTTP clients        *)
(*   - gitdocs/store/mappings.py   MappingStore, its persisted file, and   *)
(*                                 extract_ticket_keys                     *)
(* Each subsystem has its own specification (CacheSpec, CacheFaultSpec,    *)
(* ConcSpec, RetrySpec, MappingSpec, PersistSpec, ExtractSpec); the        *)
(* variables of the other subsystems stay unchanged.                       *)
(*                                                                         *)
(* Regular expressions, JSON text and ISO-8601 timestamps are given by     *)
(* what re.findall, json and datetime do with them at the call sites.      *)
(*                                                                         *)
(* The backing store is diskcache.Cache and the retry wrapper tenacity's   *)
(* @retry; the operators named Disk... and the retry operators give what   *)
(* those libraries do at the call sites in the source: a DiskCache counts, *)
(* iterates and clears expired rows too, but get and delete see a row only *)
(* while expire_time > now, and set culls the rows with expire_time < now; *)
(* its truth value is len() > 0.  The size limit of the store is not       *)
(* modelled.                                                               *)
(***************************************************************************)
EXTENDS Integers, Sequences, FiniteSets, TLC

VARIABLES
    \* ---- Cache (store/cache.py) ----
    enabled,      \* Cache.enabled
    cache_obj,    \* Cache._cache: "None" or "DiskCache" (the opened store)
    store,        \* rows of the diskcache store in cache_dir: composed key -> row
    now,          \* wall clock, in seconds
    last,         \* the last Cache call: its arguments and what the caller got
    \* ---- retry-wrapped HTTP clients (atlassian/*_client.py) ----
    client,          \* "jira" or "confluence"; "none" while no call is running
    method,          \* the client method called
    retry_state,     \* Idle, Attempting, RetryableFailure, Succeeded, TerminalFailure
    attempt_number,  \* tenacity's attempt counter of the running call
    history,         \* what each request of the call met, in order
    slept,           \* the backoff delays the call has waited, in order
    surfaced,        \* the exception raised to the caller, "none" if none
    \* ---- MappingStore (store/mappings.py) ----
    mappings,        \* MappingStore.mappings: ticket_key -> list of mappings
    last_add,        \* history: whether the last call was an add_mapping and
                     \* met its (ticket_key, commit_sha) already present
    last_map,        \* history: the last call on the mapping store other than
                     \* add_mapping, with its arguments
    file,            \* the persisted mapping file at path
    \* ---- extract_ticket_keys (store/mappings.py) ----
    extract,         \* the last call: text, patterns and what came back
    derived,         \* the last call of find_related_tickets or
                     \* suggest_ticket_from_branch
    \* ---- AppContext (core/app.py) ----
    app,             \* the loaded configuration, AppContext._cache and the
                     \* Cache built from it
    \* ---- Cache called from concurrent tasks ----
    conc             \* the tasks of one clear racing with set calls

cacheVars == <<enabled, cache_obj, store, now, last>>

retryVars ==
    <<client, method, retry_state, attempt_number, history, slept, surfaced>>

mappingVars == <<mappings, last_add, last_map, file>>

\* what the operations of each subsystem leave alone
nonCacheVars == <<retryVars, mappingVars, extract, derived, app, conc>>

nonRetryVars == <<cacheVars, mappingVars, extract, derived, app, conc>>

nonMappingVars == <<enabled, cache_obj, store, last, retryVars, extract, derived, app, conc>>

nonExtractVars == <<cacheVars, retryVars, mappingVars, derived, app, conc>>

nonDerivedVars == <<cacheVars, retryVars, mappingVars, extract, app, conc>>

nonAppVars == <<store, now, last, retryVars, mappingVars, extract, derived, conc>>

vars ==
    <<enabled, cache_obj, store, now, last,
      client, method, retry_state, attempt_number, history, slept, surfaced,
      mappings, last_add, last_map, file, extract, derived, app, conc>>

-----------------------------------------------------------------------------
(* Bounds and inputs of the cache model *)

\* the clock stops advancing here
MaxTime == 1

\* Cache.__init__'s ttl argument (default_ttl), in seconds
DefaultTTL == 2

\* close calls counted on one cache
MaxCloses == 2

\* namespaces and caller keys are strings, modelled as sequences of characters;
\* "a" is a prefix and "b" a suffix of "a:b"
Namespaces == { <<"a">>, <<"a", ":", "b">>, <<"b">> }

\* the (namespace, key) pairs the callers use
Pairs ==
    { <<<<"a">>, <<"k">>>>, <<<<"a">>, <<"b", ":", "k">>>>,
      <<<<"a", ":", "b">>, <<"k">>>>, <<<<"b">>, <<"k">>>> }

\* the pairs used while the backing store is failing
FaultPairs == { <<<<"a">>, <<"k">>>>, <<<<"b">>, <<"k">>>> }

Values == { "v1", "v2" }

\* the default argument of get: None, or a value the caller supplies
Defaults == { "None", "dflt" }

\* the ttl argument of set: None (not given), 0 or a positive number of seconds
TTLArgs ==
    { [given |-> FALSE, secs |-> 0], [given |-> TRUE, secs |-> 0],
      [given |-> TRUE, secs |-> 1] }

NoTTL == [given |-> FALSE, secs |-> 0]

\* where the backing store fails during a call: not at all, while answering
\* len() for the truth test of self._cache, or inside the store operation
Faults == { "none", "len", "op" }

-----------------------------------------------------------------------------
(* Cache: pure helpers *)

\* Cache._make_key: f"{namespace}:{key}"
MakeKey(namespace, key) == namespace \o <<":">> \o key

\* str.startswith
StartsWith(s, prefix) ==
    /\ Len(prefix) <= Len(s)
    /\ SubSeq(s, 1, Len(prefix)) = prefix

\* a row of the store: the value and the absolute expiry time; ns is history,
\* the namespace argument of the set call that wrote the row
Row(value, expire_time, ns) ==
    [value |-> value, expire_time |-> expire_time, ns |-> ns]

\* len(self._cache): diskcache counts every row, expired ones included
DiskLen(st) == Cardinality(DOMAIN st)

\* truth value of self._cache: None is false; a DiskCache defines __len__ and
\* no __bool__, so it is true exactly when it holds at least one row
Truthy(obj, st) == obj # "None" /\ DiskLen(st) > 0

\* the guard shared by get/set/delete/clear_namespace:
\*   if not self.enabled or not self._cache: return
GuardReturns(en, obj, st) == ~en \/ ~Truthy(obj, st)

\* the guard evaluates len(self._cache), a query on the backing store, only
\* when self.enabled is true and self._cache is not None
GuardQueriesStore(en, obj) == en /\ obj # "None"

\* DiskGet without the expiry test: a row is returned as long as it exists
DiskGet_IgnoresExpiry(st, ckey, default, t) ==
    IF ckey \in DOMAIN st THEN st[ckey].value ELSE default

\* DiskCache.get(key, default): a row counts only while expire_time > now
DiskGet(st, ckey, default, t) ==
    IF ckey \in DOMAIN st /\ st[ckey].expire_time > t
    THEN st[ckey].value
    ELSE default

\* expire = ttl if ttl is not None else self.default_ttl
EffectiveTTL(ttl) == IF ttl.given THEN ttl.secs ELSE DefaultTTL

\* rows removed by the cull that DiskCache.set runs: expire_time < now
Culled(st, t) == { c \in DOMAIN st : st[c].expire_time < t }

\* DiskCache.set(key, value, expire): upsert the row with
\* expire_time = now + expire, then cull expired rows
DiskSet(st, ckey, value, expire, t, ns) ==
    LET written == [c \in (DOMAIN st) \cup {ckey} |->
                      IF c = ckey THEN Row(value, t + expire, ns) ELSE st[c]]
    IN  [c \in (DOMAIN written) \ Culled(written, t) |-> written[c]]

\* DiskCache.delete(key): removes the row only while it is unexpired
\* (an expired row is left to the cull)
DiskDelete(st, ckey, t) ==
    IF ckey \in DOMAIN st /\ st[ckey].expire_time > t
    THEN [c \in (DOMAIN st) \ {ckey} |-> st[c]]
    ELSE st

\* the keys clear_namespace selects: key.startswith(f"{namespace}:")
NamespaceKeys(st, namespace) ==
    { c \in DOMAIN st : StartsWith(c, namespace \o <<":">>) }

EmptyStore == [c \in {} |-> Row("v1", 0, <<>>)]

\* the record of a call as the caller sees it: result is what get returned,
\* count what clear_namespace returned, raised whether an exception reached
\* the caller, at the time of the call
Call(op, ns, key, arg, ttl, fault, result, count, raised) ==
    [op |-> op, ns |-> ns, key |-> key, arg |-> arg, ttl |-> ttl,
     fault |-> fault, result |-> result, count |-> count, raised |-> raised,
     at |-> now]

NoCall ==
    [op |-> "none", ns |-> <<>>, key |-> <<>>, arg |-> "None", ttl |-> NoTTL,
     fault |-> "none", result |-> "None", count |-> 0, raised |-> FALSE,
     at |-> 0]

\* a fault is injected only where the call touches the backing store
FaultApplies(fault, en, obj, st) ==
    \/ fault = "none"
    \/ fault = "len" /\ GuardQueriesStore(en, obj)
    \/ fault = "op" /\ ~GuardReturns(en, obj, st)

-----------------------------------------------------------------------------
(* Cache: construction *)

\* OpenStore opening the store whatever the enabled flag
OpenStore_Always(en) == "DiskCache"

\* Cache.__init__: the store is opened only when the cache is enabled
OpenStore(en) == IF en THEN "DiskCache" ELSE "None"

\* what cache_dir may hold when the cache is constructed: nothing, or a row
\* left there by an earlier process
SeedStores ==
    {EmptyStore} \cup
    { [c \in {MakeKey(p[1], p[2])} |-> Row(v, e, p[1])] :
        p \in Pairs, v \in Values, e \in 1..MaxTime }

-----------------------------------------------------------------------------
(* Cache: operations *)

\* Cache.get
Get(ns, key, default, fault) ==
    /\ FaultApplies(fault, enabled, cache_obj, store)
    /\ last' =
         IF fault = "len"
         THEN Call("get", ns, key, default, NoTTL, fault, "None", 0, TRUE)
         ELSE IF GuardReturns(enabled, cache_obj, store) \/ fault = "op"
         THEN Call("get", ns, key, default, NoTTL, fault, default, 0, FALSE)
         ELSE Call("get", ns, key, default, NoTTL, fault,
                   DiskGet(store, MakeKey(ns, key), default, now), 0, FALSE)
    /\ UNCHANGED <<enabled, cache_obj, store, now>>
    /\ UNCHANGED nonCacheVars

\* Cache.set
Set(ns, key, value, ttl, fault) ==
    /\ FaultApplies(fault, enabled, cache_obj, store)
    /\ store' =
         IF fault # "none" \/ GuardReturns(enabled, cache_obj, store)
         THEN store
         ELSE DiskSet(store, MakeKey(ns, key), value, EffectiveTTL(ttl), now, ns)
    /\ last' = Call("set", ns, key, value, ttl, fault, "None", 0, fault = "len")
    /\ UNCHANGED <<enabled, cache_obj, now>>
    /\ UNCHANGED nonCacheVars

\* Cache.delete
Delete(ns, key, fault) ==
    /\ FaultApplies(fault, enabled, cache_obj, store)
    /\ store' =
         IF fault # "none" \/ GuardReturns(enabled, cache_obj, store)
         THEN store
         ELSE DiskDelete(store, MakeKey(ns, key), now)
    /\ last' = Call("delete", ns, key, "None", NoTTL, fault, "None", 0,
                    fault = "len")
    /\ UNCHANGED <<enabled, cache_obj, now>>
    /\ UNCHANGED nonCacheVars

\* the rows left after self._cache.delete(key) for every key of done
DeleteEach(st, done, t) ==
    [c \in { d \in DOMAIN st : ~(d \in done /\ st[d].expire_time > t) } |-> st[c]]

\* Cache.clear_namespace: every selected key is passed to delete and counted;
\* a store failure inside the loop ends it after the keys in done
ClearNamespace(ns, fault, done) ==
    /\ FaultApplies(fault, enabled, cache_obj, store)
    /\ done \subseteq NamespaceKeys(store, ns)
    /\ fault = "none" => done = NamespaceKeys(store, ns)
    /\ fault = "op" => done # NamespaceKeys(store, ns)
    /\ fault = "len" => done = {}
    /\ IF fault = "len" \/ GuardReturns(enabled, cache_obj, store)
       THEN /\ store' = store
            /\ last' = Call("clear_namespace", ns, <<>>, "None", NoTTL, fault,
                            "None", 0, fault = "len")
       ELSE /\ store' = DeleteEach(store, done, now)
            /\ last' = Call("clear_namespace", ns, <<>>, "None", NoTTL, fault,
                            "None", Cardinality(done), FALSE)
    /\ UNCHANGED <<enabled, cache_obj, now>>
    /\ UNCHANGED nonCacheVars

\* Cache.clear_all: guarded by "if self._cache" alone
ClearAll(fault) ==
    /\ \/ fault = "none"
       \/ fault = "len" /\ cache_obj # "None"
       \/ fault = "op" /\ Truthy(cache_obj, store)
    /\ store' =
         IF fault = "none" /\ Truthy(cache_obj, store)
         THEN EmptyStore
         ELSE store
    /\ last' = Call("clear_all", <<>>, <<>>, "None", NoTTL, fault, "None", 0,
                    fault = "len")
    /\ UNCHANGED <<enabled, cache_obj, now>>
    /\ UNCHANGED nonCacheVars

\* time passes
Tick ==
    /\ now < MaxTime
    /\ now' = now + 1
    /\ UNCHANGED <<enabled, cache_obj, store, last>>
    /\ UNCHANGED <<retryVars, mappingVars, extract, derived, app, conc>>

CacheNext ==
    \/ \E p \in Pairs, d \in Defaults : Get(p[1], p[2], d, "none")
    \/ \E p \in Pairs, v \in Values, ttl \in TTLArgs :
          Set(p[1], p[2], v, ttl, "none")
    \/ \E p \in Pairs : Delete(p[1], p[2], "none")
    \/ \E ns \in Namespaces :
          ClearNamespace(ns, "none", NamespaceKeys(store, ns))
    \/ ClearAll("none")
    \/ Tick

CacheFaultNext ==
    \/ \E p \in FaultPairs, d \in Defaults, f \in Faults : Get(p[1], p[2], d, f)
    \/ \E p \in FaultPairs, v \in Values, ttl \in TTLArgs, f \in Faults :
          Set(p[1], p[2], v, ttl, f)
    \/ \E p \in FaultPairs, f \in Faults : Delete(p[1], p[2], f)
    \/ \E ns \in Namespaces, f \in Faults :
          \E done \in SUBSET NamespaceKeys(store, ns) :
             ClearNamespace(ns, f, done)
    \/ \E f \in Faults : ClearAll(f)
    \/ Tick

-----------------------------------------------------------------------------
(* Retry-wrapped HTTP clients: JiraClient and ConfluenceClient *)

\* stop_after_attempt(MAX_RETRIES)
MAX_RETRIES == 3

\* wait_exponential(multiplier=1, min=1, max=10)
WaitMultiplier == 1

WaitMin == 1

WaitMax == 10

Clients == { "jira", "confluence" }

\* the request methods of each client
Methods(c) ==
    IF c = "jira"
    THEN { "get", "post", "put", "get_agile" }
    ELSE { "get", "post", "put", "get_legacy", "post_legacy", "put_legacy" }

\* the methods that carry the @retry decorator
Wrapped(c, m) == m \in { "get", "post", "put" }

\* the methods that send a POST or a PUT
Mutating(m) == m \in { "post", "put", "post_legacy", "put_legacy" }

\* HTTP status codes a response may carry
Statuses == { 200, 204, 400, 401, 403, 404, 429, 500 }

\* what a request can meet: a response with a status, or an httpx exception
\* raised by self._client.get/post/put
Outcomes ==
    { [kind |-> "response", status |-> st] : st \in Statuses } \cup
    { [kind |-> k, status |-> 0] :
        k \in { "TimeoutException", "NetworkError", "ProtocolError" } }

\* the error class of the client: JiraError or ConfluenceError
ApiErrorOf(c) == IF c = "jira" THEN "JiraError" ELSE "ConfluenceError"

\* _handle_response: the exception raised for the status, "none" when the
\* body is returned
HandleResponse(c, status) ==
    IF status = 401 THEN "AuthError"
    ELSE IF status = 403 THEN "AuthError"
    ELSE IF status = 404 THEN ApiErrorOf(c)
    ELSE IF status = 429 THEN ApiErrorOf(c)
    ELSE IF status >= 400 THEN ApiErrorOf(c)
    ELSE "none"

\* the exception one attempt ends with, "none" when it returns
AttemptException(c, outcome) ==
    IF outcome.kind = "response"
    THEN HandleResponse(c, outcome.status)
    ELSE outcome.kind

\* RetryIfExceptionType matching every exception
RetryIfExceptionType_Any(exc) == exc # "none"

\* retry_if_exception_type((httpx.TimeoutException, httpx.NetworkError))
RetryIfExceptionType(exc) == exc \in { "TimeoutException", "NetworkError" }

\* whether the call is attempted again after an attempt ending with exc
ShouldRetry(c, m, exc) == Wrapped(c, m) /\ RetryIfExceptionType(exc)

\* StopAfterAttempt stopping two attempts late
StopAfterAttempt_Late(n) == n >= MAX_RETRIES + 2

\* StopAfterAttempt off by one: stops after the attempt past the maximum
StopAfterAttempt_OffByOne(n) == n > MAX_RETRIES

\* stop_after_attempt(MAX_RETRIES): attempt_number >= max_attempt_number
StopAfterAttempt(n) == n >= MAX_RETRIES

RECURSIVE Pow2(_)
Pow2(n) == IF n = 0 THEN 1 ELSE 2 * Pow2(n - 1)

Min2(x, y) == IF x <= y THEN x ELSE y

Max2(x, y) == IF x >= y THEN x ELSE y

\* wait_exponential: multiplier * 2^(attempt_number - 1), kept in [min, max]
WaitExponential(n) ==
    Max2(Max2(0, WaitMin), Min2(WaitMultiplier * Pow2(n - 1), WaitMax))

\* a caller invokes a client method
StartCall(c, m) ==
    /\ retry_state = "Idle"
    /\ client' = c
    /\ method' = m
    /\ retry_state' = "Attempting"
    /\ attempt_number' = 1
    /\ history' = <<>>
    /\ slept' = <<>>
    /\ surfaced' = "none"
    /\ UNCHANGED nonRetryVars

\* one attempt: the request is sent, the response handled, and the retry
\* wrapper decides what follows
Attempt(outcome) ==
    /\ retry_state = "Attempting"
    /\ history' = Append(history, outcome)
    /\ LET exc == AttemptException(client, outcome) IN
         IF exc = "none"
         THEN /\ retry_state' = "Succeeded"
              /\ surfaced' = "none"
         ELSE IF ~ShouldRetry(client, method, exc)
         THEN /\ retry_state' = "TerminalFailure"
              /\ surfaced' = exc
         ELSE IF StopAfterAttempt(attempt_number)
         THEN /\ retry_state' = "TerminalFailure"
              /\ surfaced' = exc
         ELSE /\ retry_state' = "RetryableFailure"
              /\ surfaced' = "none"
    /\ UNCHANGED <<client, method, attempt_number, slept>>
    /\ UNCHANGED nonRetryVars

\* the backoff delay, then the next attempt
Backoff ==
    /\ retry_state = "RetryableFailure"
    /\ slept' = Append(slept, WaitExponential(attempt_number))
    /\ attempt_number' = attempt_number + 1
    /\ retry_state' = "Attempting"
    /\ UNCHANGED <<client, method, history, surfaced>>
    /\ UNCHANGED nonRetryVars

\* the call returns to its caller, with the result or the exception
Finish ==
    /\ retry_state \in { "Succeeded", "TerminalFailure" }
    /\ client' = "none"
    /\ method' = "none"
    /\ retry_state' = "Idle"
    /\ attempt_number' = 0
    /\ history' = <<>>
    /\ slept' = <<>>
    /\ surfaced' = "none"
    /\ UNCHANGED nonRetryVars

RetryNext ==
    \/ \E c \in Clients : \E m \in Methods(c) : StartCall(c, m)
    \/ \E o \in Outcomes : Attempt(o)
    \/ Backoff
    \/ Finish

-----------------------------------------------------------------------------------------------------------------------------------------------------
(* MappingStore *)

\* the largest number of mappings add_mapping is driven to
MaxMappings == 2

Tickets == { "PROJ-1", "PROJ-2" }

Shas == { "abc123", "def456" }

Messages == { "fix", "feat" }

\* Optional[datetime]: None, or a time
None == [some |-> FALSE, t |-> 0]

Some(t) == [some |-> TRUE, t |-> t]

\* TicketCommitMapping
Mapping(ticket_key, commit_sha, commit_message, mapped_at, synced, synced_at) ==
    [ticket_key |-> ticket_key, commit_sha |-> commit_sha,
     commit_message |-> commit_message, mapped_at |-> mapped_at,
     synced |-> synced, synced_at |-> synced_at]

\* TicketCommitMapping(ticket_key, commit_sha, commit_message): mapped_at is
\* datetime.now(), synced False, synced_at None
NewMapping(ticket_key, commit_sha, commit_message, t) ==
    Mapping(ticket_key, commit_sha, commit_message, t, FALSE, None)

\* MappingStore(): an empty dict
EmptyMappings == [t \in {} |-> <<>>]

\* HasSha never finding the commit: add_mapping without its duplicate check
HasSha_Never(list, commit_sha) == FALSE

\* the duplicate check of add_mapping: some existing.commit_sha == commit_sha
HasSha(list, commit_sha) ==
    \E i \in 1..Len(list) : list[i].commit_sha = commit_sha

\* whether the dict holds a mapping of the commit under the ticket
HasMapping(m, ticket_key, commit_sha) ==
    ticket_key \in DOMAIN m /\ HasSha(m[ticket_key], commit_sha)

\* AddTo replacing the stored mapping of the same commit by the new one
AddTo_Replaces(m, mapping) ==
    LET key == mapping.ticket_key
        m1 == IF key \notin DOMAIN m
              THEN [t \in (DOMAIN m) \cup {key} |->
                      IF t = key THEN <<>> ELSE m[t]]
              ELSE m
    IN  IF HasSha(m1[key], mapping.commit_sha)
        THEN [m1 EXCEPT ![key] =
                [i \in 1..Len(@) |->
                   IF @[i].commit_sha = mapping.commit_sha
                   THEN mapping ELSE @[i]]]
        ELSE [m1 EXCEPT ![key] = Append(@, mapping)]

\* MappingStore.add_mapping, on the dict
AddTo(m, mapping) ==
    LET key == mapping.ticket_key
        m1 == IF key \notin DOMAIN m
              THEN [t \in (DOMAIN m) \cup {key} |->
                      IF t = key THEN <<>> ELSE m[t]]
              ELSE m
    IN  IF HasSha(m1[key], mapping.commit_sha)
        THEN m1
        ELSE [m1 EXCEPT ![key] = Append(@, mapping)]

\* the index of the first mapping of list with commit_sha, 0 when there is none
RECURSIVE FirstMatch(_, _, _)
FirstMatch(list, commit_sha, i) ==
    IF i > Len(list) THEN 0
    ELSE IF list[i].commit_sha = commit_sha THEN i
    ELSE FirstMatch(list, commit_sha, i + 1)

\* MarkIn marking every mapping stored under the ticket
MarkIn_WholeTicket(m, ticket_key, commit_sha, t) ==
    IF ticket_key \notin DOMAIN m THEN m
    ELSE [m EXCEPT ![ticket_key] =
            [i \in 1..Len(@) |->
               [@[i] EXCEPT !.synced = TRUE, !.synced_at = Some(t)]]]

\* MappingStore.mark_synced, on the dict
MarkIn(m, ticket_key, commit_sha, t) ==
    IF ticket_key \notin DOMAIN m THEN m
    ELSE LET i == FirstMatch(m[ticket_key], commit_sha, 1) IN
         IF i = 0 THEN m
         ELSE [m EXCEPT ![ticket_key][i] =
                 [@ EXCEPT !.synced = TRUE, !.synced_at = Some(t)]]

\* the filter of get_unsynced_mappings passing every mapping
IsUnsynced_Always(mapping) == TRUE

\* the filter of get_unsynced_mappings: if not m.synced
IsUnsynced(mapping) == ~mapping.synced

\* the orders in which the dict may be iterated: every sequence of its keys
\* without repetition
KeyOrders(m) ==
    { ord \in [1..Cardinality(DOMAIN m) -> DOMAIN m] :
        \A i, j \in 1..Cardinality(DOMAIN m) : ord[i] = ord[j] => i = j }

\* MappingStore.get_unsynced_mappings, the dict iterated in the order ord
RECURSIVE GetUnsyncedFrom(_, _, _)
GetUnsyncedFrom(m, ord, i) ==
    IF i > Len(ord) THEN <<>>
    ELSE SelectSeq(m[ord[i]], IsUnsynced) \o GetUnsyncedFrom(m, ord, i + 1)

GetUnsyncedMappings(m, ord) == GetUnsyncedFrom(m, ord, 1)

\* datetime.isoformat(): the ISO-8601 text of the time t
IsoFormat(t) == [iso |-> TRUE, t |-> t]

\* a JSON string that is no ISO-8601 timestamp
BadTimestamp == [iso |-> FALSE, t |-> 0]

\* datetime.fromisoformat(text); raises ValueError when text is no timestamp
FromIsoFormat(text) == text.t

\* JSON null, and a JSON string, as the value of an optional field
JsonNull == [null |-> TRUE, text |-> BadTimestamp]

JsonText(text) == [null |-> FALSE, text |-> text]

\* a record of the persisted document; missing names the keys it lacks
JsonRecord(ticket_key, commit_sha, commit_message, mapped_at, synced, synced_at, missing) ==
    [ticket_key |-> ticket_key, commit_sha |-> commit_sha,
     commit_message |-> commit_message, mapped_at |-> mapped_at,
     synced |-> synced, synced_at |-> synced_at, missing |-> missing]

\* ToDictRecord persisting no synced_at
ToDictRecord_DropsSyncedAt(mapping) ==
    JsonRecord(mapping.ticket_key, mapping.commit_sha, mapping.commit_message,
               IsoFormat(mapping.mapped_at), mapping.synced, JsonNull, {})

\* the record to_dict writes for one mapping
ToDictRecord(mapping) ==
    JsonRecord(mapping.ticket_key, mapping.commit_sha, mapping.commit_message,
               IsoFormat(mapping.mapped_at), mapping.synced,
               IF mapping.synced_at.some
               THEN JsonText(IsoFormat(mapping.synced_at.t))
               ELSE JsonNull,
               {})

\* MappingStore.to_dict, the dict iterated in the order ord: the document is
\* the sequence of its entries <<ticket, records>>
ToDict(m, ord) ==
    [i \in 1..Len(ord) |->
       <<ord[i], [j \in 1..Len(m[ord[i]]) |-> ToDictRecord(m[ord[i]][j])]>>]

\* whether building the TicketCommitMapping of a record raises: KeyError for
\* m["..."] on a missing key, ValueError for a malformed timestamp
RecordRaises(r) ==
    \/ r.missing \cap {"ticket_key", "commit_sha", "commit_message",
                       "mapped_at"} # {}
    \/ ~r.mapped_at.iso
    \/ /\ "synced_at" \notin r.missing
       /\ ~r.synced_at.null
       /\ ~r.synced_at.text.iso

\* RecordToMapping leaving synced at its default False
RecordToMapping_ForgetsSynced(r) ==
    Mapping(r.ticket_key, r.commit_sha, r.commit_message,
            FromIsoFormat(r.mapped_at),
            FALSE,
            IF "synced_at" \in r.missing \/ r.synced_at.null
            THEN None
            ELSE Some(FromIsoFormat(r.synced_at.text)))

\* the TicketCommitMapping from_dict builds of a record
RecordToMapping(r) ==
    Mapping(r.ticket_key, r.commit_sha, r.commit_message,
            FromIsoFormat(r.mapped_at),
            IF "synced" \in r.missing THEN FALSE ELSE r.synced,
            IF "synced_at" \in r.missing \/ r.synced_at.null
            THEN None
            ELSE Some(FromIsoFormat(r.synced_at.text)))

\* the inner loop of from_dict: add_mapping for every record of one entry
RECURSIVE AddRecords(_, _, _)
AddRecords(m, records, i) ==
    IF i > Len(records) THEN m
    ELSE AddRecords(AddTo(m, RecordToMapping(records[i])), records, i + 1)

\* MappingStore.from_dict: the loop over data.items(); data is the sequence
\* of the document's entries <<ticket, records>>
RECURSIVE FromDictFrom(_, _, _)
FromDictFrom(m, data, i) ==
    IF i > Len(data) THEN m
    ELSE FromDictFrom(AddRecords(m, data[i][2], 1), data, i + 1)

FromDictOf(data) == FromDictFrom(EmptyMappings, data, 1)

\* whether from_dict raises on the document
FromDictRaises(data) ==
    \E i \in 1..Len(data) : \E j \in 1..Len(data[i][2]) :
        RecordRaises(data[i][2][j])

\* the number of mappings a dict holds
RECURSIVE CountOver(_, _)
CountOver(m, keys) ==
    IF keys = {} THEN 0
    ELSE LET t == CHOOSE x \in keys : TRUE
         IN  Len(m[t]) + CountOver(m, keys \ {t})

MappingCount(m) == CountOver(m, DOMAIN m)

\* records a persisted document may hold: one commit under either ticket
DocRecords ==
    { JsonRecord(t, "abc123", "fix", IsoFormat(0), FALSE, JsonNull, {}) :
        t \in Tickets }

\* documents of one entry, keyed PROJ-1, holding up to two records of any
\* ticket_key (from_dict files each record under its own ticket_key)
Docs ==
    { << <<"PROJ-1", recs>> >> :
        recs \in {<<>>} \cup { <<r>> : r \in DocRecords }
                        \cup { <<r1, r2>> : r1 \in DocRecords, r2 \in DocRecords } }

-----------------------------------------------------------------------------
(* the persisted mapping file *)

\* what path may hold: no file; a file that cannot be reached (stat fails
\* with a permission error); a file that cannot be read; text that is no
\* JSON; JSON that is no object; a JSON object, data its entries
File(kind, data) == [kind |-> kind, data |-> data]

MissingFile == File("missing", <<>>)

JsonFile(data) == File("json", data)

\* a record with every key and well-formed timestamps
GoodRecord ==
    JsonRecord("PROJ-1", "abc123", "fix", IsoFormat(0), TRUE,
               JsonText(IsoFormat(1)), {})

\* damaged or unreadable forms of the file
DamagedFiles ==
    { File("inaccessible", <<>>), File("unreadable", <<>>),
      File("not_json", <<>>), File("json_not_object", <<>>),
      JsonFile(<< <<"PROJ-1", <<[GoodRecord EXCEPT !.missing = {"commit_sha"}]>> >> >>),
      JsonFile(<< <<"PROJ-1", <<[GoodRecord EXCEPT !.mapped_at = BadTimestamp]>> >> >>),
      JsonFile(<< <<"PROJ-1",
                    <<GoodRecord,
                      [GoodRecord EXCEPT !.commit_sha = "def456",
                                         !.synced_at = JsonText(BadTimestamp)]>> >> >>) }

\* path.exists() lets an OSError other than ENOENT, ENOTDIR, EBADF and ELOOP
\* through: the permission error of a file that cannot be reached
ExistsRaises(f) == f.kind = "inaccessible"

\* the exception raised inside the try block of load_mapping_store, "none"
\* when from_dict returns
LoadException(f) ==
    IF f.kind = "unreadable" THEN "PermissionError"
    ELSE IF f.kind = "not_json" THEN "JSONDecodeError"
    ELSE IF f.kind = "json_not_object" THEN "AttributeError"
    ELSE IF f.kind = "json" /\ FromDictRaises(f.data) THEN "KeyError or ValueError"
    ELSE "none"

\* except Exception: every exception raised in the try block is caught
LoadCatches(exc) == exc # "none"

\* whether load_mapping_store raises to its caller
LoadRaises(f) ==
    \/ ExistsRaises(f)
    \/ f.kind # "missing" /\ LoadException(f) # "none"
                          /\ ~LoadCatches(LoadException(f))

\* the store load_mapping_store returns when it returns
LoadMappingStore(f) ==
    IF f.kind = "missing" THEN EmptyMappings
    ELSE IF LoadException(f) # "none" THEN EmptyMappings
    ELSE FromDictOf(f.data)

-----------------------------------------------------------------------------
(* MappingStore: operations *)

\* the record of a call on the store
MapCall(op, ticket_key, commit_sha, raised) ==
    [op |-> op, ticket_key |-> ticket_key, commit_sha |-> commit_sha,
     raised |-> raised, result |-> <<>>]

\* the record of a get_unsynced_mappings call and the list it returned
QueryCall(result) ==
    [op |-> "get_unsynced_mappings", ticket_key |-> "", commit_sha |-> "",
     raised |-> FALSE, result |-> result]

NoMapCall == MapCall("none", "", "", FALSE)

\* store.add_mapping(TicketCommitMapping(ticket_key, commit_sha, message))
AddMapping(ticket_key, commit_sha, commit_message) ==
    /\ \/ MappingCount(mappings) < MaxMappings
       \/ HasMapping(mappings, ticket_key, commit_sha)
    /\ mappings' = AddTo(mappings,
                         NewMapping(ticket_key, commit_sha, commit_message, now))
    /\ last_add' = IF HasMapping(mappings, ticket_key, commit_sha)
                   THEN "present" ELSE "new"
    /\ last_map' = NoMapCall
    /\ UNCHANGED <<file, now>>
    /\ UNCHANGED nonMappingVars

\* store.mark_synced(ticket_key, commit_sha)
MarkSynced(ticket_key, commit_sha) ==
    /\ mappings' = MarkIn(mappings, ticket_key, commit_sha, now)
    /\ last_add' = "none"
    /\ last_map' = MapCall("mark_synced", ticket_key, commit_sha, FALSE)
    /\ UNCHANGED <<file, now>>
    /\ UNCHANGED nonMappingVars

\* store.get_unsynced_mappings(), the dict iterated in the order ord
GetUnsynced(ord) ==
    /\ last_map' = QueryCall(GetUnsyncedMappings(mappings, ord))
    /\ last_add' = "none"
    /\ UNCHANGED <<mappings, file, now>>
    /\ UNCHANGED nonMappingVars

\* MappingStore.get_mappings_for_ticket, on the dict:
\* self.mappings.get(ticket_key, [])
MappingsForTicket(m, ticket_key) ==
    IF ticket_key \in DOMAIN m THEN m[ticket_key] ELSE <<>>

\* store.get_mappings_for_ticket(ticket_key)
GetMappingsForTicket(ticket_key) ==
    /\ last_map' = [op |-> "get_mappings_for_ticket", ticket_key |-> ticket_key,
                    commit_sha |-> "", raised |-> FALSE,
                    result |-> MappingsForTicket(mappings, ticket_key)]
    /\ last_add' = "none"
    /\ UNCHANGED <<mappings, file, now>>
    /\ UNCHANGED nonMappingVars

\* store = MappingStore.from_dict(data)
FromDict(data) ==
    /\ mappings' = FromDictOf(data)
    /\ last_add' = "none"
    /\ last_map' = MapCall("from_dict", "", "", FALSE)
    /\ UNCHANGED <<file, now>>
    /\ UNCHANGED nonMappingVars

\* save_mapping_store(store, path): the file is rewritten whole; ord is the
\* order in which to_dict iterates the dict
Save(ord) ==
    /\ file' = JsonFile(ToDict(mappings, ord))
    /\ last_add' = "none"
    /\ last_map' = MapCall("save", "", "", FALSE)
    /\ UNCHANGED <<mappings, now>>
    /\ UNCHANGED nonMappingVars

\* store = load_mapping_store(path): when the call raises, the caller keeps
\* the store it had
Load ==
    /\ mappings' = IF LoadRaises(file) THEN mappings ELSE LoadMappingStore(file)
    /\ last_add' = "none"
    /\ last_map' = MapCall("load", "", "", LoadRaises(file))
    /\ UNCHANGED <<file, now>>
    /\ UNCHANGED nonMappingVars

\* the file is damaged, removed or made unreadable from outside the program
Damage(f) ==
    /\ file' = f
    /\ last_add' = "none"
    /\ last_map' = NoMapCall
    /\ UNCHANGED <<mappings, now>>
    /\ UNCHANGED nonMappingVars

MappingNext ==
    \/ \E t \in Tickets, sha \in Shas, msg \in Messages : AddMapping(t, sha, msg)
    \/ \E t \in Tickets, sha \in Shas : MarkSynced(t, sha)
    \/ \E data \in Docs : FromDict(data)
    \/ Tick

\* the (ticket_key, commit_sha) pairs recorded while the file is in use
PersistPairs ==
    { <<"PROJ-1", "abc123">>, <<"PROJ-1", "def456">>, <<"PROJ-2", "abc123">> }

\* the store in memory: additions, marking and the two queries
StoreNext ==
    \/ \E t \in Tickets, sha \in Shas, msg \in Messages : AddMapping(t, sha, msg)
    \/ \E t \in Tickets, sha \in Shas : MarkSynced(t, sha)
    \/ \E t \in Tickets : GetMappingsForTicket(t)
    \/ \E ord \in KeyOrders(mappings) : GetUnsynced(ord)
    \/ Tick

\* the store with its query and its persisted file
PersistNext ==
    \/ \E p \in PersistPairs : AddMapping(p[1], p[2], "fix")
    \/ \E p \in PersistPairs : MarkSynced(p[1], p[2])
    \/ \E ord \in KeyOrders(mappings) : GetUnsynced(ord)
    \/ \E ord \in KeyOrders(mappings) : Save(ord)
    \/ Load
    \/ \E f \in DamagedFiles \cup {MissingFile} : Damage(f)
    \/ Tick

-----------------------------------------------------------------------------
(* extract_ticket_keys *)

\* the longest text, in words, and the longest patterns list
MaxWords == 2

MaxPatterns == 2

\* a text is a sequence of words separated by blanks
Words == { "PROJ-1", "proj-1", "ZED-9", "abc-1", "fix" }

Texts == UNION { [1..n -> Words] : n \in 0..MaxWords }

\* str.upper
Upper(s) ==
    CASE s = "proj-1" -> "PROJ-1"
      [] s = "abc-1" -> "ABC-1"
      [] s = "proj" -> "PROJ"
      [] s = "abc" -> "ABC"
      [] s = "fix" -> "FIX"
      [] OTHER -> s

\* the part of a word before its hyphen and the part after it
Project(word) ==
    CASE word = "PROJ-1" -> "PROJ"
      [] word = "proj-1" -> "proj"
      [] word = "ZED-9" -> "ZED"
      [] word = "abc-1" -> "abc"
      [] OTHER -> ""

Number(word) == IF word = "ZED-9" THEN "9" ELSE "1"

\* the order of str: the place of each upper-case key among the others
Rank(key) ==
    CASE key = "ABC" -> 1
      [] key = "ABC-1" -> 2
      [] key = "PROJ" -> 3
      [] key = "PROJ-1" -> 4
      [] key = "ZED" -> 5
      [] key = "ZED-9" -> 6
      [] OTHER -> 0

\* a regular expression by what re.findall does with it: whether it compiles
\* ("ok") or what compiling raises, how many groups it has, and the
\* upper-cased words it matches under re.IGNORECASE
Pattern(source, compile, groups, accepts) ==
    [source |-> source, compile |-> compile, groups |-> groups,
     accepts |-> accepts]

DEFAULT_TICKET_PATTERN ==
    Pattern("\\b([A-Z][A-Z0-9]+-\\d+)\\b", "ok", 1, {"PROJ-1", "ZED-9", "ABC-1"})

\* the patterns a caller may configure: two groups, no group, and two that
\* fail to compile, with re.error and with OverflowError
PatternSet ==
    { DEFAULT_TICKET_PATTERN,
      Pattern("([A-Z]+)-(\\d+)", "ok", 2, {"PROJ-1", "ZED-9", "ABC-1"}),
      Pattern("ZED-\\d+", "ok", 0, {"ZED-9"}),
      Pattern("[", "re.error", 0, {}),
      Pattern("a{99999999999999999999}", "OverflowError", 0, {}) }

\* the patterns argument: None, or a list
PatternsArg(given, list) == [given |-> given, list |-> list]

PatternsArgs ==
    {PatternsArg(FALSE, <<>>)} \cup
    { PatternsArg(TRUE, l) : l \in UNION { [1..n -> PatternSet] : n \in 0..MaxPatterns } }

\* whether the pattern matches the word, case-insensitively
Matches(pattern, word) == Upper(word) \in pattern.accepts

\* one element of the list re.findall returns: the matched text, the text of
\* the group, or the tuple of the groups when there are several
MatchOf(pattern, word) ==
    IF pattern.groups >= 2
    THEN [tuple |-> TRUE, items |-> <<Project(word), Number(word)>>]
    ELSE [tuple |-> FALSE, items |-> <<word>>]

\* re.findall(pattern, text, re.IGNORECASE) for a pattern that compiles
FindAll(pattern, text) ==
    LET hits == SelectSeq(text, LAMBDA w : Matches(pattern, w))
    IN  [i \in 1..Len(hits) |-> MatchOf(pattern, hits[i])]

\* the key taken of a match: match[0].upper() of a tuple, match.upper() else
KeyOfMatch(match) ==
    IF match.tuple THEN Upper(match.items[1]) ELSE Upper(match.items[1])

\* except re.error
ExtractCatches(exc) == exc = "re.error"

\* sorted(keys)
RECURSIVE Sorted(_)
Sorted(keys) ==
    IF keys = {} THEN <<>>
    ELSE LET least == CHOOSE k \in keys : \A o \in keys : Rank(k) <= Rank(o)
         IN  <<least>> \o Sorted(keys \ {least})

\* the loop of extract_ticket_keys from the i-th pattern on
RECURSIVE ExtractFrom(_, _, _, _)
ExtractFrom(text, patterns, i, keys) ==
    IF i > Len(patterns)
    THEN [result |-> Sorted(keys), raised |-> "none"]
    ELSE IF patterns[i].compile = "ok"
    THEN LET matches == FindAll(patterns[i], text)
         IN  ExtractFrom(text, patterns, i + 1,
                         keys \cup { KeyOfMatch(matches[k]) :
                                       k \in 1..Len(matches) })
    ELSE IF ExtractCatches(patterns[i].compile)
    THEN ExtractFrom(text, patterns, i + 1, keys)
    ELSE [result |-> <<>>, raised |-> patterns[i].compile]

\* extract_ticket_keys(text, patterns): what it returns and what it raises
ExtractTicketKeys(text, arg) ==
    ExtractFrom(text, IF arg.given THEN arg.list ELSE <<DEFAULT_TICKET_PATTERN>>,
                1, {})

NoExtract ==
    [called |-> FALSE, text |-> <<>>, patterns |-> PatternsArg(FALSE, <<>>),
     result |-> <<>>, raised |-> "none"]

\* a caller invokes extract_ticket_keys
Extract(text, arg) ==
    /\ ~extract.called
    /\ extract' =
         [called |-> TRUE, text |-> text, patterns |-> arg,
          result |-> ExtractTicketKeys(text, arg).result,
          raised |-> ExtractTicketKeys(text, arg).raised]
    /\ UNCHANGED nonExtractVars

\* the caller has taken the result
ExtractReturn ==
    /\ extract.called
    /\ extract' = NoExtract
    /\ UNCHANGED nonExtractVars

ExtractNext ==
    \/ \E text \in Texts, arg \in PatternsArgs : Extract(text, arg)
    \/ ExtractReturn

-----------------------------------------------------------------------------
(* Cache called from concurrent tasks: one clear_namespace or clear_all      *)
(* racing with set calls.  Cache holds no lock; each call of a DiskCache     *)
(* method (len, iteration, delete, clear, set) is one step                   *)

\* the number of tasks calling set
MaxSetters == 2

\* the value the store holds before the race (0) and the value the i-th
\* setter writes; the default no caller stores
ConcValue(i) == <<"w", i>>

ConcDefault == <<"w", -1>>

\* what the directory holds when the race starts: any of the rows a:k, b:k,
\* written at time 0 with the default ttl
ConcSeeds ==
    { [c \in { MakeKey(p[1], p[2]) : p \in ps } |->
         Row(ConcValue(0), DefaultTTL,
             (CHOOSE p \in ps : MakeKey(p[1], p[2]) = c)[1])] :
      ps \in SUBSET FaultPairs }

\* the clear call of the race: clear_namespace("a") or clear_all()
ClearCalls == { [kind |-> "clear_namespace", ns |-> <<"a">>],
                [kind |-> "clear_all", ns |-> <<>>] }

\* a task: its call and where it stands in it; keys are the keys of
\* list(self._cache) with the prefix that are still to be deleted
ClearTask(call, pc, keys) == [call |-> call, pc |-> pc, keys |-> keys]

SetTask(ns, key, pc) == [ns |-> ns, key |-> key, pc |-> pc]

\* the race: the store it started from, the tasks, and the rows the clear
\* has removed (history)
Conc(init, clear, sets, deleted) ==
    [phase |-> "run", init |-> init, clear |-> clear, sets |-> sets,
     deleted |-> deleted]

NoConc ==
    [phase |-> "none", init |-> EmptyStore,
     clear |-> ClearTask([kind |-> "clear_all", ns |-> <<>>], "done", {}),
     sets |-> <<>>, deleted |-> {}]

\* Cache.set run alone on the store st
SetOn(st, ns, key, value, t) ==
    IF GuardReturns(TRUE, "DiskCache", st)
    THEN st
    ELSE DiskSet(st, MakeKey(ns, key), value, EffectiveTTL(NoTTL), t, ns)

\* Cache.clear_namespace or Cache.clear_all run alone on the store st
ClearOn(st, call, t) ==
    IF call.kind = "clear_all"
    THEN IF Truthy("DiskCache", st) THEN EmptyStore ELSE st
    ELSE IF GuardReturns(TRUE, "DiskCache", st)
    THEN st
    ELSE DeleteEach(st, NamespaceKeys(st, call.ns), t)

\* the clear evaluates its guard: "if not self.enabled or not self._cache"
\* in clear_namespace, "if self._cache" in clear_all
ClearGuard ==
    /\ conc.phase = "run"
    /\ conc.clear.pc = "start"
    /\ conc' = [conc EXCEPT !.clear.pc =
                  IF conc.clear.call.kind = "clear_namespace"
                  THEN IF GuardReturns(enabled, cache_obj, store)
                       THEN "done" ELSE "guarded"
                  ELSE IF Truthy(cache_obj, store) THEN "guarded" ELSE "done"]
    /\ UNCHANGED <<enabled, cache_obj, store, now, last>>
    /\ UNCHANGED <<retryVars, mappingVars, extract, derived, app>>

\* clear_namespace reads the keys of the store once: list(self._cache)
ClearCollect ==
    /\ conc.phase = "run"
    /\ conc.clear.pc = "guarded"
    /\ conc.clear.call.kind = "clear_namespace"
    /\ conc' = [conc EXCEPT
                  !.clear.keys = NamespaceKeys(store, conc.clear.call.ns),
                  !.clear.pc =
                     IF NamespaceKeys(store, conc.clear.call.ns) = {}
                     THEN "done" ELSE "collected"]
    /\ UNCHANGED <<enabled, cache_obj, store, now, last>>
    /\ UNCHANGED <<retryVars, mappingVars, extract, derived, app>>

\* one round of the loop of clear_namespace: self._cache.delete(key)
ClearDeleteOne(ckey) ==
    /\ conc.phase = "run"
    /\ conc.clear.pc = "collected"
    /\ ckey \in conc.clear.keys
    /\ store' = DiskDelete(store, ckey, now)
    /\ conc' = [conc EXCEPT
                  !.clear.keys = @ \ {ckey},
                  !.clear.pc = IF conc.clear.keys = {ckey}
                               THEN "done" ELSE "collected",
                  !.deleted =
                     IF DiskDelete(store, ckey, now) # store
                     THEN @ \cup {<<ckey, store[ckey].value>>} ELSE @]
    /\ UNCHANGED <<enabled, cache_obj, now, last>>
    /\ UNCHANGED <<retryVars, mappingVars, extract, derived, app>>

\* clear_all: self._cache.clear()
ClearAllRun ==
    /\ conc.phase = "run"
    /\ conc.clear.pc = "guarded"
    /\ conc.clear.call.kind = "clear_all"
    /\ store' = EmptyStore
    /\ conc' = [conc EXCEPT
                  !.clear.pc = "done",
                  !.deleted = @ \cup { <<c, store[c].value>> : c \in DOMAIN store }]
    /\ UNCHANGED <<enabled, cache_obj, now, last>>
    /\ UNCHANGED <<retryVars, mappingVars, extract, derived, app>>

\* the i-th setter evaluates the guard of set
SetGuard(i) ==
    /\ conc.phase = "run"
    /\ conc.sets[i].pc = "start"
    /\ conc' = [conc EXCEPT !.sets[i].pc =
                  IF GuardReturns(enabled, cache_obj, store)
                  THEN "done" ELSE "guarded"]
    /\ UNCHANGED <<enabled, cache_obj, store, now, last>>
    /\ UNCHANGED <<retryVars, mappingVars, extract, derived, app>>

\* the i-th setter writes: self._cache.set(cache_key, value, expire=expire)
SetWrite(i) ==
    /\ conc.phase = "run"
    /\ conc.sets[i].pc = "guarded"
    /\ store' = DiskSet(store, MakeKey(conc.sets[i].ns, conc.sets[i].key),
                        ConcValue(i), EffectiveTTL(NoTTL), now, conc.sets[i].ns)
    /\ conc' = [conc EXCEPT !.sets[i].pc = "done"]
    /\ UNCHANGED <<enabled, cache_obj, now, last>>
    /\ UNCHANGED <<retryVars, mappingVars, extract, derived, app>>

ConcNext ==
    \/ ClearGuard
    \/ ClearCollect
    \/ \E ckey \in conc.clear.keys : ClearDeleteOne(ckey)
    \/ ClearAllRun
    \/ \E i \in 1..MaxSetters : SetGuard(i)
    \/ \E i \in 1..MaxSetters : SetWrite(i)

-----------------------------------------------------------------------------
(* Cache.cached: the wrapper around a function *)

\* what the wrapped function may return: a value, or None
FuncResults == Values \cup {"None"}

\* self.get(namespace, key) as the wrapper calls it, with the default None
\* and a working store
GetOf(en, obj, st, ns, key, t) ==
    IF GuardReturns(en, obj, st) THEN "None"
    ELSE DiskGet(st, MakeKey(ns, key), "None", t)

\* self.set(namespace, key, value, ttl) on a working store: the rows after it
SetOf(en, obj, st, ns, key, value, ttl, t) ==
    IF GuardReturns(en, obj, st) THEN st
    ELSE DiskSet(st, MakeKey(ns, key), value, EffectiveTTL(ttl), t, ns)

\* the wrapper's test "if cached_value is not None"
IsHit(cached_value) == cached_value # "None"

\* a call of a function decorated with cache.cached(ns, key_func, ttl), where
\* key_func gives key for the arguments and the function, if invoked,
\* returns value: arg records value, result what the wrapper returned, count
\* how often the function was invoked
CachedCall(ns, key, value, ttl) ==
    LET cached_value == GetOf(enabled, cache_obj, store, ns, key, now)
    IN  IF IsHit(cached_value)
        THEN /\ last' = Call("cached", ns, key, value, ttl, "none",
                             cached_value, 0, FALSE)
             /\ UNCHANGED <<enabled, cache_obj, store, now>>
             /\ UNCHANGED nonCacheVars
        ELSE /\ store' = SetOf(enabled, cache_obj, store, ns, key, value, ttl, now)
             /\ last' = Call("cached", ns, key, value, ttl, "none", value, 1, FALSE)
             /\ UNCHANGED <<enabled, cache_obj, now>>
             /\ UNCHANGED nonCacheVars

\* calls of decorated functions, and time
CachedNext ==
    \/ \E p \in FaultPairs, v \in FuncResults, ttl \in TTLArgs :
          CachedCall(p[1], p[2], v, ttl)
    \/ Tick

-----------------------------------------------------------------------------
(* find_related_tickets and suggest_ticket_from_branch *)

\* commit messages, as texts
CommitTexts ==
    { <<>>, <<"fix">>, <<"PROJ-1">>, <<"proj-1", "ZED-9">>, <<"ZED-9", "PROJ-1">> }

\* the lists of commit messages passed to find_related_tickets: none, one
\* or two messages
CommitLists ==
    {<<>>} \cup { <<m>> : m \in CommitTexts }
           \cup { <<m1, m2>> : m1 \in CommitTexts, m2 \in CommitTexts }

\* ticket_commits = {}
EmptyTicketCommits == [k \in {} |-> <<>>]

\* AddIndex recording only the first commit of a ticket
AddIndex_FirstOnly(ticket_commits, key, index) ==
    IF key \notin DOMAIN ticket_commits
    THEN [k \in (DOMAIN ticket_commits) \cup {key} |->
            IF k = key THEN <<index>> ELSE ticket_commits[k]]
    ELSE ticket_commits

\* the body of the inner loop of find_related_tickets:
\*   if key not in ticket_commits: ticket_commits[key] = []
\*   ticket_commits[key].append(i)
AddIndex(ticket_commits, key, index) ==
    LET with_key ==
          IF key \notin DOMAIN ticket_commits
          THEN [k \in (DOMAIN ticket_commits) \cup {key} |->
                  IF k = key THEN <<>> ELSE ticket_commits[k]]
          ELSE ticket_commits
    IN  [with_key EXCEPT ![key] = Append(@, index)]

\* for key in keys, from the k-th key on
RECURSIVE AddKeys(_, _, _, _)
AddKeys(ticket_commits, keys, k, index) ==
    IF k > Len(keys) THEN ticket_commits
    ELSE AddKeys(AddIndex(ticket_commits, keys[k], index), keys, k + 1, index)

\* for i, message in enumerate(commit_messages), from the n-th message on
\* (i = n - 1); an exception of extract_ticket_keys ends the call
RECURSIVE FindFrom(_, _, _, _)
FindFrom(commit_messages, arg, n, ticket_commits) ==
    IF n > Len(commit_messages)
    THEN [result |-> ticket_commits, raised |-> "none"]
    ELSE LET e == ExtractTicketKeys(commit_messages[n], arg)
         IN  IF e.raised # "none"
             THEN [result |-> EmptyTicketCommits, raised |-> e.raised]
             ELSE FindFrom(commit_messages, arg, n + 1,
                           AddKeys(ticket_commits, e.result, 1, n - 1))

\* find_related_tickets(commit_messages, patterns)
FindRelatedTickets(commit_messages, arg) ==
    FindFrom(commit_messages, arg, 1, EmptyTicketCommits)

\* Optional[str]
NoKey == [some |-> FALSE, key |-> ""]

SomeKey(key) == [some |-> TRUE, key |-> key]

\* FirstOrNone taking the last key
FirstOrNone_Last(keys) ==
    IF Len(keys) > 0 THEN SomeKey(keys[Len(keys)]) ELSE NoKey

\* keys[0] if keys else None
FirstOrNone(keys) ==
    IF Len(keys) > 0 THEN SomeKey(keys[1]) ELSE NoKey

\* suggest_ticket_from_branch(branch_name, patterns)
SuggestTicketFromBranch(branch_name, arg) ==
    LET e == ExtractTicketKeys(branch_name, arg)
    IN  IF e.raised # "none"
        THEN [result |-> NoKey, raised |-> e.raised]
        ELSE [result |-> FirstOrNone(e.result), raised |-> "none"]

\* the record of a call: related is what find_related_tickets returned,
\* suggested what suggest_ticket_from_branch returned
DerivedCall(op, commit_messages, branch_name, arg, related, suggested, raised) ==
    [op |-> op, commit_messages |-> commit_messages,
     branch_name |-> branch_name, patterns |-> arg, related |-> related,
     suggested |-> suggested, raised |-> raised]

NoDerived ==
    DerivedCall("none", <<>>, <<>>, PatternsArg(FALSE, <<>>),
                EmptyTicketCommits, NoKey, "none")

\* a caller invokes find_related_tickets
FindRelated(commit_messages, arg) ==
    /\ derived.op = "none"
    /\ derived' =
         DerivedCall("find_related_tickets", commit_messages, <<>>, arg,
                     FindRelatedTickets(commit_messages, arg).result, NoKey,
                     FindRelatedTickets(commit_messages, arg).raised)
    /\ UNCHANGED nonDerivedVars

\* a caller invokes suggest_ticket_from_branch
SuggestFromBranch(branch_name, arg) ==
    /\ derived.op = "none"
    /\ derived' =
         DerivedCall("suggest_ticket_from_branch", <<>>, branch_name, arg,
                     EmptyTicketCommits,
                     SuggestTicketFromBranch(branch_name, arg).result,
                     SuggestTicketFromBranch(branch_name, arg).raised)
    /\ UNCHANGED nonDerivedVars

\* the caller has taken the result
DerivedReturn ==
    /\ derived.op # "none"
    /\ derived' = NoDerived
    /\ UNCHANGED nonDerivedVars

\* one call at a time
DerivedNext ==
    \/ /\ derived.op = "none"
       /\ \E msgs \in CommitLists, arg \in PatternsArgs : FindRelated(msgs, arg)
    \/ /\ derived.op = "none"
       /\ \E branch \in Texts, arg \in PatternsArgs : SuggestFromBranch(branch, arg)
    \/ DerivedReturn

-----------------------------------------------------------------------------
(* AppContext: the cache it creates from the configuration, and close *)

\* CACHE_DIR_NAME under the repository root
CacheDirName == ".gitdocs_cache"

\* the default of Cache.__init__'s max_size argument, in bytes
DefaultMaxSize == 100 * 1024 * 1024

\* CacheConfig: enabled, ttl_seconds (> 0) and max_size_mb (> 0); the second
\* value of each is the field's default
CacheConfigs ==
    [enabled : BOOLEAN, ttl_seconds : {DefaultTTL, 300}, max_size_mb : {50, 100}]

\* the state of the storage location when the cache is created: usable, the
\* directory cannot be created (permissions, read-only or full disk), or the
\* directory exists and the store in it cannot be opened (corrupt database,
\* permissions, full disk)
Dirs == { "usable", "mkdir_fails", "open_fails" }

\* get_cache_dir: root / CACHE_DIR_NAME, created with
\* mkdir(parents=True, exist_ok=True), whose OSError is not caught
GetCacheDir(dir) ==
    [path |-> CacheDirName, raised |-> dir = "mkdir_fails"]

\* Cache.__init__(cache_dir, ttl, enabled, max_size): the fields it sets and
\* the DiskCache it opens when enabled, whose exception is not caught; an
\* opened DiskCache holds a connection to its database
NewCache(cache_dir, ttl, en, max_size, dir) ==
    [cache_dir |-> cache_dir, default_ttl |-> ttl, enabled |-> en,
     cache_obj |-> OpenStore(en),
     size_limit |-> IF en THEN max_size ELSE 0,
     raised |-> en /\ dir = "open_fails"]

\* AppContext(config, repo_root) with the Cache it has created, if any:
\* cache is AppContext._cache, cache_dir/default_ttl/size_limit the
\* parameters of that Cache and its DiskCache, connected whether the
\* DiskCache holds an open connection, op the last call on the context or
\* its cache, raised whether that call raised, closes the number of close
\* calls made
AppContext(config, dir) ==
    [created |-> TRUE, config |-> config, dir |-> dir, cache |-> "None",
     cache_dir |-> "", default_ttl |-> 0, size_limit |-> 0,
     connected |-> FALSE, op |-> "none", raised |-> FALSE, closes |-> 0]

NoApp ==
    [created |-> FALSE, config |-> [enabled |-> FALSE, ttl_seconds |-> 300,
                                    max_size_mb |-> 100],
     dir |-> "usable", cache |-> "None",
     cache_dir |-> "", default_ttl |-> 0, size_limit |-> 0,
     connected |-> FALSE, op |-> "none", raised |-> FALSE, closes |-> 0]

\* the Cache that AppContext.cache constructs: cache_dir, ttl and enabled are
\* passed, max_size is left to its default
CacheOfConfig(config, cache_dir, dir) ==
    NewCache(cache_dir, config.ttl_seconds, config.enabled, DefaultMaxSize, dir)

\* AppContext.cache: returns self._cache, creating it on first use; an
\* exception of get_cache_dir or of Cache.__init__ leaves self._cache None
\* and reaches the caller
AppCache ==
    /\ app.created
    /\ LET d == GetCacheDir(app.dir)
           c == CacheOfConfig(app.config, d.path, app.dir)
       IN  IF app.cache # "None"
           THEN /\ app' = [app EXCEPT !.op = "cache", !.raised = FALSE]
                /\ UNCHANGED <<enabled, cache_obj>>
           ELSE IF d.raised \/ c.raised
           THEN /\ app' = [app EXCEPT !.op = "cache", !.raised = TRUE]
                /\ UNCHANGED <<enabled, cache_obj>>
           ELSE /\ app' = [app EXCEPT !.op = "cache", !.raised = FALSE,
                                      !.cache = "Cache",
                                      !.cache_dir = c.cache_dir,
                                      !.default_ttl = c.default_ttl,
                                      !.size_limit = c.size_limit,
                                      !.connected = (c.cache_obj # "None")]
                /\ enabled' = c.enabled
                /\ cache_obj' = c.cache_obj
    /\ UNCHANGED nonAppVars

\* whether the DiskCache holds a connection after Cache.close:
\* "if self._cache" asks the store for its length, which opens a connection
\* when none is open; self._cache.close() runs, and closes the connection,
\* only when that length is not zero
ConnectedAfterClose(obj, st, connected) ==
    IF obj = "None" THEN connected
    ELSE IF Truthy(obj, st) THEN FALSE
    ELSE TRUE

\* Cache.close, the backing store working
CacheClose ==
    /\ app.created
    /\ app.cache # "None"
    /\ app' = [app EXCEPT !.op = "close", !.raised = FALSE,
                          !.closes = IF @ < MaxCloses THEN @ + 1 ELSE @,
                          !.connected =
                              ConnectedAfterClose(cache_obj, store, @)]
    /\ UNCHANGED <<enabled, cache_obj>>
    /\ UNCHANGED nonAppVars

\* AppContext.close: "if self._cache" is true for every Cache object (the
\* class defines neither __bool__ nor __len__), and Cache.close is called
AppClose ==
    /\ app.created
    /\ app' = [app EXCEPT !.op = "app_close", !.raised = FALSE,
                          !.closes = IF app.cache = "None" THEN @
                                     ELSE IF @ < MaxCloses THEN @ + 1 ELSE @,
                          !.connected =
                              IF app.cache = "None" THEN @
                              ELSE ConnectedAfterClose(cache_obj, store, @)]
    /\ UNCHANGED <<enabled, cache_obj>>
    /\ UNCHANGED nonAppVars

\* the workflow uses the cache it was given until it closes it
AppUsesCache ==
    /\ app.cache # "None"
    /\ app.closes = 0
    /\ \/ \E p \in Pairs, v \in Values : Set(p[1], p[2], v, [given |-> TRUE, secs |-> 1], "none")
       \/ \E p \in Pairs : Delete(p[1], p[2], "none")
       \/ ClearAll("none")

AppNext ==
    \/ AppCache
    \/ CacheClose
    \/ AppClose
    \/ AppUsesCache
    \/ Tick

-----
(* Specifications *)

\* Cache.__init__ over a cache_dir that is empty or holds a row; no client
\* call is running and the mapping store is empty
CacheInit ==
    /\ enabled \in BOOLEAN
    /\ cache_obj = OpenStore(enabled)
    /\ store \in SeedStores
    /\ now = 0
    /\ last = NoCall
    /\ client = "none"
    /\ method = "none"
    /\ retry_state = "Idle"
    /\ attempt_number = 0
    /\ history = <<>>
    /\ slept = <<>>
    /\ surfaced = "none"
    /\ mappings = EmptyMappings
    /\ last_add = "none"
    /\ last_map = NoMapCall
    /\ file = MissingFile
    /\ extract = NoExtract
    /\ derived = NoDerived
    /\ app = NoApp
    /\ conc = NoConc

\* the cache with a backing store that works
CacheSpec == CacheInit /\ [][CacheNext]_vars

\* the cache with a backing store that may fail during any call
CacheFaultSpec == CacheInit /\ [][CacheFaultNext]_vars

\* the clients after __init__: no call is running; no cache is constructed
RetryInit ==
    /\ client = "none"
    /\ method = "none"
    /\ retry_state = "Idle"
    /\ attempt_number = 0
    /\ history = <<>>
    /\ slept = <<>>
    /\ surfaced = "none"
    /\ enabled = FALSE
    /\ cache_obj = "None"
    /\ store = EmptyStore
    /\ now = 0
    /\ last = NoCall
    /\ mappings = EmptyMappings
    /\ last_add = "none"
    /\ last_map = NoMapCall
    /\ file = MissingFile
    /\ extract = NoExtract
    /\ derived = NoDerived
    /\ app = NoApp
    /\ conc = NoConc

\* the HTTP clients
RetrySpec == RetryInit /\ [][RetryNext]_vars

\* the clients with every started step carried through: a request sent with
\* the client's timeout ends with a response or an exception, and the wait
\* before the next attempt is at most WaitMax seconds
RetryLiveSpec ==
    /\ RetryInit
    /\ [][RetryNext]_vars
    /\ WF_vars(\E o \in Outcomes : Attempt(o))
    /\ WF_vars(Backoff)

\* MappingStore(): an empty store; no cache is constructed, no call running
MappingInit ==
    /\ mappings = EmptyMappings
    /\ last_add = "none"
    /\ last_map = NoMapCall
    /\ file = MissingFile
    /\ extract = NoExtract
    /\ derived = NoDerived
    /\ app = NoApp
    /\ conc = NoConc
    /\ now = 0
    /\ enabled = FALSE
    /\ cache_obj = "None"
    /\ store = EmptyStore
    /\ last = NoCall
    /\ client = "none"
    /\ method = "none"
    /\ retry_state = "Idle"
    /\ attempt_number = 0
    /\ history = <<>>
    /\ slept = <<>>
    /\ surfaced = "none"

\* the mapping store
MappingSpec == MappingInit /\ [][MappingNext]_vars

\* no call of extract_ticket_keys has been made; nothing else is constructed
ExtractInit ==
    /\ extract = NoExtract
    /\ derived = NoDerived
    /\ app = NoApp
    /\ conc = NoConc
    /\ mappings = EmptyMappings
    /\ last_add = "none"
    /\ last_map = NoMapCall
    /\ file = MissingFile
    /\ now = 0
    /\ enabled = FALSE
    /\ cache_obj = "None"
    /\ store = EmptyStore
    /\ last = NoCall
    /\ client = "none"
    /\ method = "none"
    /\ retry_state = "Idle"
    /\ attempt_number = 0
    /\ history = <<>>
    /\ slept = <<>>
    /\ surfaced = "none"

\* an enabled cache over a directory holding some rows; one clear and
\* MaxSetters set calls are about to run concurrently
ConcInit ==
    /\ enabled = TRUE
    /\ cache_obj = OpenStore(TRUE)
    /\ store \in ConcSeeds
    /\ now = 0
    /\ last = NoCall
    /\ conc \in { Conc(store, ClearTask(call, "start", {}),
                        [i \in 1..MaxSetters |-> SetTask(args[i][1], args[i][2], "start")],
                        {}) :
                   call \in ClearCalls, args \in [1..MaxSetters -> FaultPairs] }
    /\ extract = NoExtract
    /\ derived = NoDerived
    /\ app = NoApp
    /\ mappings = EmptyMappings
    /\ last_add = "none"
    /\ last_map = NoMapCall
    /\ file = MissingFile
    /\ client = "none"
    /\ method = "none"
    /\ retry_state = "Idle"
    /\ attempt_number = 0
    /\ history = <<>>
    /\ slept = <<>>
    /\ surfaced = "none"

\* the cache called from concurrent tasks
ConcSpec == ConcInit /\ [][ConcNext]_vars

\* ticket key extraction
ExtractSpec == ExtractInit /\ [][ExtractNext]_vars

\* the mapping store queried, saved to and loaded from its file
PersistSpec == MappingInit /\ [][PersistNext]_vars

\* the functions built on ticket key extraction; the setting of ExtractSpec
DerivedSpec == ExtractInit /\ [][DerivedNext]_vars

\* functions decorated with cache.cached, on a store that works
CachedSpec == CacheInit /\ [][CachedNext]_vars

\* the mapping store used in memory only
StoreSpec == MappingInit /\ [][StoreNext]_vars

\* an AppContext over a loaded configuration; its cache is not created yet
\* (enabled and cache_obj are set when it is), and cache_dir holds nothing
\* or rows left by an earlier process
AppInit ==
    /\ app \in { AppContext(c, d) : c \in CacheConfigs, d \in Dirs }
    /\ enabled = FALSE
    /\ cache_obj = "None"
    /\ store \in SeedStores
    /\ now = 0
    /\ last = NoCall
    /\ client = "none"
    /\ method = "none"
    /\ retry_state = "Idle"
    /\ attempt_number = 0
    /\ history = <<>>
    /\ slept = <<>>
    /\ surfaced = "none"
    /\ mappings = EmptyMappings
    /\ last_add = "none"
    /\ last_map = NoMapCall
    /\ file = MissingFile
    /\ extract = NoExtract
    /\ derived = NoDerived
    /\ conc = NoConc

AppSpec == AppInit /\ [][AppNext]_vars

-----
(* Cache: properties *)

\* the step is a call of op (every call records itself in last)
IsCall(op) == last' # last /\ last'.op = op

\* the composed key of the last call
LastKey == MakeKey(last.ns, last.key)

\* C1: on an enabled cache, set(ns, k, v) followed by get(ns, k) before the
\* TTL elapses returns v, in every store state, the empty store included.
C1_SetThenGetReturnsValue ==
    [][ ( /\ enabled
          /\ last.op = "set"
          /\ IsCall("get")
          /\ last'.ns = last.ns
          /\ last'.key = last.key
          /\ now' < last.at + EffectiveTTL(last.ttl) )
        => last'.result = last.arg ]_vars

\* C2: a get of a key whose row is still in the store but past its expiry
\* returns the default, as for an absent key.
C2_ExpiredReadsAsAbsent ==
    ( /\ last.op = "get"
      /\ LastKey \in DOMAIN store
      /\ last.at > store[LastKey].expire_time )
    => last.result = last.arg

C2_Witness ==
    /\ enabled
    /\ last.op = "get"
    /\ LastKey \in DOMAIN store
    /\ last.at > store[LastKey].expire_time
    /\ last.result = last.arg

\* C3: clear_namespace(a) removes no unexpired row that was stored under a
\* namespace other than a.
C3_ClearNamespaceKeepsOthers ==
    [][ IsCall("clear_namespace")
        => \A c \in DOMAIN store :
              (store[c].ns # last'.ns /\ store[c].expire_time > now)
              => (c \in DOMAIN store' /\ store'[c] = store[c]) ]_vars

\* C4: on an enabled cache, set(ns, k, v1) followed by set(ns, k, v2) leaves
\* exactly one row for (ns, k), holding v2 with the expiry of the second set,
\* and the second set does not add a row.
C4_SetTwiceKeepsOneRow ==
    [][ ( /\ enabled
          /\ last.op = "set"
          /\ IsCall("set")
          /\ last'.ns = last.ns
          /\ last'.key = last.key )
        => ( /\ MakeKey(last'.ns, last'.key) \in DOMAIN store'
             /\ store'[MakeKey(last'.ns, last'.key)].value = last'.arg
             /\ store'[MakeKey(last'.ns, last'.key)].expire_time
                  = now' + EffectiveTTL(last'.ttl)
             /\ DiskLen(store') <= DiskLen(store) ) ]_vars

\* C5: a disabled cache opens no store, never changes the rows on disk,
\* answers every get with the default and every clear_namespace with 0.
C5_DisabledIsNoOp ==
    /\ [](~enabled =>
            /\ cache_obj = "None"
            /\ ~last.raised
            /\ (last.op = "get" => last.result = last.arg)
            /\ (last.op = "clear_namespace" => last.count = 0))
    /\ [][~enabled => (store' = store /\ cache_obj' = cache_obj)]_vars

\* a disabled cache answers the default although the directory holds an
\* unexpired row for the key
C5_Witness ==
    /\ ~enabled
    /\ last.op = "get"
    /\ LastKey \in DOMAIN store
    /\ store[LastKey].expire_time > last.at
    /\ last.result = last.arg

\* C6: get, set and delete never let an exception reach the caller when the
\* backing store fails, wherever in the call it fails.
C6_NoExceptionEscapes ==
    last.op \in {"get", "set", "delete"} => ~last.raised

-----------------------------------------------------------------------------
(* Retry: properties *)

\* the number of requests the running call has sent
Sent == Len(history)

AllTransient(h) ==
    \A i \in 1..Len(h) : RetryIfExceptionType(AttemptException(client, h[i]))

\* C7: a retry-wrapped fetch whose every attempt fails with a transient error
\* is attempted exactly MAX_RETRIES times and then raises that error.
C7_TransientFetchExhausts ==
    ( /\ Wrapped(client, method)
      /\ method = "get"
      /\ AllTransient(history) )
    => ( /\ Sent <= MAX_RETRIES
         /\ retry_state # "Succeeded"
         /\ retry_state \in { "Attempting", "RetryableFailure" }
              => (Sent < MAX_RETRIES /\ surfaced = "none")
         /\ retry_state = "TerminalFailure"
              => ( /\ Sent = MAX_RETRIES
                   /\ surfaced = AttemptException(client, history[Sent]) ) )

C7_Witness ==
    /\ method = "get"
    /\ retry_state = "TerminalFailure"
    /\ AllTransient(history)
    /\ Sent = MAX_RETRIES
    /\ surfaced = "TimeoutException"

\* an attempt that met a response with an error status
StatusFailure(o) ==
    o.kind = "response" /\ HandleResponse(client, o.status) # "none"

\* C8: a call whose attempt fails with an error status is not attempted
\* again: it ends in TerminalFailure with that error, and when the first
\* attempt fails so, exactly one request was sent and no backoff was waited.
C8_StatusErrorNotRetried ==
    \A i \in 1..Len(history) :
        StatusFailure(history[i])
        => ( /\ i = Sent
             /\ retry_state = "TerminalFailure"
             /\ surfaced = HandleResponse(client, history[i].status)
             /\ Len(slept) = i - 1 )

C8_Witness ==
    /\ Wrapped(client, method)
    /\ Sent = 1
    /\ StatusFailure(history[1])
    /\ retry_state = "TerminalFailure"
    /\ slept = <<>>

\* C9: one invocation of a POST or PUT method sends its request at most once.
C9_MutatingSentOnce ==
    Mutating(method) => Sent <= 1

-----------------------------------------------------------------------------
(* MappingStore: properties *)

\* C10: in every store reachable by add_mapping, mark_synced and from_dict,
\* each ticket holds at most one mapping per commit_sha, and an add_mapping
\* of a (ticket_key, commit_sha) already present adds no mapping.
C10_OneMappingPerCommit ==
    /\ [](\A t \in DOMAIN mappings :
            \A i, j \in 1..Len(mappings[t]) :
               mappings[t][i].commit_sha = mappings[t][j].commit_sha => i = j)
    /\ [][ last_add' = "present"
           => MappingCount(mappings') = MappingCount(mappings) ]_vars

\* an add_mapping has just met its commit under the ticket, and the ticket
\* still holds one mapping of each commit
C10_Witness ==
    /\ last_add = "present"
    /\ "PROJ-1" \in DOMAIN mappings
    /\ Len(mappings["PROJ-1"]) = 2

\* C11: mark_synced(ticket_key, commit_sha) changes at most the first
\* mapping under ticket_key with that commit_sha, which becomes synced with a
\* synced_at; every other mapping, and the whole store when nothing matches,
\* stays as it was, and nothing is raised.
C11_MarkSyncedChangesFirstMatchOnly ==
    [][ (last_map'.op = "mark_synced" /\ now' = now)
        => LET t == last_map'.ticket_key
               sha == last_map'.commit_sha
               first(k, j) ==
                   /\ k = t
                   /\ mappings[k][j].commit_sha = sha
                   /\ \A j2 \in 1..(j - 1) : mappings[k][j2].commit_sha # sha
           IN  /\ ~last_map'.raised
               /\ DOMAIN mappings' = DOMAIN mappings
               /\ \A k \in DOMAIN mappings :
                    /\ Len(mappings'[k]) = Len(mappings[k])
                    /\ \A j \in 1..Len(mappings[k]) :
                         IF first(k, j)
                         THEN /\ mappings'[k][j].synced
                              /\ mappings'[k][j].synced_at.some
                              /\ mappings'[k][j] =
                                   [mappings[k][j] EXCEPT
                                      !.synced = TRUE,
                                      !.synced_at = mappings'[k][j].synced_at]
                         ELSE mappings'[k][j] = mappings[k][j] ]_vars

\* mark_synced("PROJ-1", "abc123") has synced that mapping and left the
\* mapping of def456 under the same ticket unsynced
C11_Witness ==
    /\ last_map.op = "mark_synced"
    /\ last_map.ticket_key = "PROJ-1"
    /\ last_map.commit_sha = "abc123"
    /\ "PROJ-1" \in DOMAIN mappings
    /\ Len(mappings["PROJ-1"]) = 2
    /\ \A i \in 1..2 :
          mappings["PROJ-1"][i].synced
            = (mappings["PROJ-1"][i].commit_sha = "abc123")

\* C12: over add_mapping and mark_synced calls, a synced_at that is set
\* never changes again.
C12_SyncedAtSetOnce ==
    [][ (last_add' # "none" \/ last_map'.op = "mark_synced")
        => \A t \in DOMAIN mappings :
             \A i \in 1..Len(mappings[t]) :
                mappings[t][i].synced_at.some
                => mappings'[t][i].synced_at = mappings[t][i].synced_at ]_vars

\* C13: get_unsynced_mappings returns exactly the mappings whose synced flag
\* is false: none synced or foreign, none missing, none twice.
C13_UnsyncedQueryExact ==
    last_map.op = "get_unsynced_mappings"
    => LET r == last_map.result IN
         /\ \A k \in 1..Len(r) :
               /\ ~r[k].synced
               /\ r[k].ticket_key \in DOMAIN mappings
               /\ \E i \in 1..Len(mappings[r[k].ticket_key]) :
                     mappings[r[k].ticket_key][i] = r[k]
         /\ \A t \in DOMAIN mappings :
               \A i \in 1..Len(mappings[t]) :
                  ~mappings[t][i].synced
                  => \E k \in 1..Len(r) : r[k] = mappings[t][i]
         /\ \A k1, k2 \in 1..Len(r) : r[k1] = r[k2] => k1 = k2

\* the query answered one mapping of a store that holds a synced mapping
\* under one ticket and an unsynced one under the other
C13_Witness ==
    /\ last_map.op = "get_unsynced_mappings"
    /\ Len(last_map.result) = 1
    /\ DOMAIN mappings = Tickets
    /\ \E t \in Tickets : mappings[t][1].synced

\* C14: for every reachable store and every iteration order of its dict,
\* from_dict(to_dict(s)) raises nothing and equals s, and so does
\* load_mapping_store of the file save_mapping_store wrote.
C14_RoundTripPreservesStore ==
    \A ord \in KeyOrders(mappings) :
        /\ ~FromDictRaises(ToDict(mappings, ord))
        /\ FromDictOf(ToDict(mappings, ord)) = mappings
        /\ ~LoadRaises(JsonFile(ToDict(mappings, ord)))
        /\ LoadMappingStore(JsonFile(ToDict(mappings, ord))) = mappings

\* the store was loaded from the file its own save wrote, and holds a
\* mapping synced at a time other than the one it was mapped at, beside an
\* unsynced one
C14_Witness ==
    /\ last_map.op = "load"
    /\ \E ord \in KeyOrders(mappings) : file = JsonFile(ToDict(mappings, ord))
    /\ \E t \in DOMAIN mappings : \E i \in 1..Len(mappings[t]) :
          /\ mappings[t][i].synced
          /\ mappings[t][i].synced_at # Some(mappings[t][i].mapped_at)
    /\ \E t \in DOMAIN mappings : \E i \in 1..Len(mappings[t]) :
          ~mappings[t][i].synced

\* C15: load_mapping_store raises nothing and returns an empty store when
\* the file is missing, unreadable, no JSON, or JSON with records that lack
\* keys or carry malformed timestamps.
C15_LoadNeverRaises ==
    (last_map.op = "load" /\ file \in DamagedFiles \cup {MissingFile})
    => (~last_map.raised /\ mappings = EmptyMappings)

-----------------------------------------------------------------------------
(* extract_ticket_keys: properties *)

\* the list of patterns the call applies
Applied(arg) == IF arg.given THEN arg.list ELSE <<DEFAULT_TICKET_PATTERN>>

\* the patterns of the list that compile
ValidOnly(list) == SelectSeq(list, LAMBDA p : p.compile = "ok")

\* the text a match captures: its first group, the whole match without groups
Capture(pattern, word) ==
    IF pattern.groups >= 2 THEN Project(word) ELSE word

\* the upper-cased captures of every valid pattern over the text
Captures(text, list) ==
    { Upper(Capture(list[i], text[j])) :
        <<i, j>> \in { ij \in (1..Len(list)) \X (1..Len(text)) :
                         /\ list[ij[1]].compile = "ok"
                         /\ Matches(list[ij[1]], text[ij[2]]) } }

\* C16: extract_ticket_keys returns the sorted, duplicate-free list of the
\* upper-cased captures of every valid pattern of the list.
C16_SortedUniqueCaptures ==
    extract.called
    => /\ extract.raised = "none"
       /\ \A i, j \in 1..Len(extract.result) :
             i < j => Rank(extract.result[i]) < Rank(extract.result[j])
       /\ { extract.result[i] : i \in 1..Len(extract.result) }
            = Captures(extract.text, Applied(extract.patterns))

\* C17: with patterns that fail to compile in the list, extract_ticket_keys
\* raises nothing and returns what it returns for the list without them.
C17_MalformedPatternSkipped ==
    extract.called
    => /\ extract.raised = "none"
       /\ extract.result =
            ExtractTicketKeys(extract.text,
                PatternsArg(TRUE, ValidOnly(Applied(extract.patterns)))).result

-----------------------------------------------------------------------------
(* Cache under concurrent calls: properties *)

\* every task of the race has returned
AllDone ==
    /\ conc.clear.pc = "done"
    /\ \A i \in 1..Len(conc.sets) : conc.sets[i].pc = "done"

\* the orders in which the clear (0) and the setters can run one after another
SerialOrders ==
    { o \in [1..(Len(conc.sets) + 1) -> 0..Len(conc.sets)] :
        \A i, j \in 1..(Len(conc.sets) + 1) : o[i] = o[j] => i = j }

\* the store after the calls ran alone, one after another, in the order o
RECURSIVE SerialFrom(_, _, _)
SerialFrom(st, o, i) ==
    IF i > Len(o) THEN st
    ELSE IF o[i] = 0
    THEN SerialFrom(ClearOn(st, conc.clear.call, now), o, i + 1)
    ELSE SerialFrom(SetOn(st, conc.sets[o[i]].ns, conc.sets[o[i]].key,
                          ConcValue(o[i]), now), o, i + 1)

\* C18: while a clear races with set calls, no get returns the value of a
\* row the clear removed, and when all calls have returned the store is one
\* that the same calls produce in some serial order.
C18_ClearNeverResurrects ==
    conc.phase = "run"
    => /\ \A d \in conc.deleted :
             DiskGet(store, d[1], ConcDefault, now) # d[2]
       /\ AllDone => \E o \in SerialOrders : store = SerialFrom(conc.init, o, 1)

-----------------------------------------------------------------------------
(* Cache: properties of clear_namespace and of the expiry set writes *)

\* C19: clear_namespace(ns) on an enabled cache, no other call running,
\* leaves no row whose key starts with "ns:", so that every get(ns, k)
\* returns the default, and returns the number of rows it removed.
C19_ClearNamespaceRemovesAndCounts ==
    [][ (enabled /\ IsCall("clear_namespace"))
        => /\ NamespaceKeys(store', last'.ns) = {}
           /\ \A p \in Pairs :
                 p[1] = last'.ns
                 => DiskGet(store', MakeKey(p[1], p[2]), "None", now') = "None"
           /\ last'.count = Cardinality((DOMAIN store) \ (DOMAIN store')) ]_vars

\* C20: a set that reaches the store writes the row with expiry
\* now + (ttl or default_ttl): a positive ttl as given, None or 0 replaced by
\* default_ttl.
C20_SetExpiryIsTtlOrDefault ==
    [][ (IsCall("set") /\ ~GuardReturns(enabled, cache_obj, store))
        => /\ MakeKey(last'.ns, last'.key) \in DOMAIN store'
           /\ store'[MakeKey(last'.ns, last'.key)].expire_time
                = now + (IF last'.ttl.given /\ last'.ttl.secs > 0
                         THEN last'.ttl.secs ELSE DefaultTTL) ]_vars

-----------------------------------------------------------------------------
(* Cache: composition of the store key *)

\* C21: key composition is injective, so a get that returns a stored value
\* returns a value that was set under the same (namespace, key) pair: the row
\* it reads was written by a set call with the namespace of the get.
C21_GetReadsOwnPairOnly ==
    (last.op = "get" /\ last.result \in Values)
    => /\ LastKey \in DOMAIN store
       /\ store[LastKey].ns = last.ns

-----------------------------------------------------------------------------
(* AppContext and Cache: close and construction *)

\* the step is a call of Cache.close, directly or through AppContext.close
IsClose ==
    /\ app' # app
    /\ app'.op \in {"close", "app_close"}
    /\ app.cache # "None"

\* C22: after close() on an enabled cache the backing store holds no open
\* connection, whatever rows the store holds (none included), and a second
\* close changes nothing and raises nothing.
C22_CloseReleasesAndIsIdempotent ==
    /\ []( (enabled /\ app.op \in {"close", "app_close"} /\ app.closes >= 1)
           => (~app.connected /\ ~app.raised) )
    /\ [][ (IsClose /\ app.closes >= 1)
           => /\ app'.connected = app.connected
              /\ store' = store
              /\ ~app'.raised ]_vars

\* C23: AppContext.cache never raises; when the storage location is
\* unusable it returns a cache that runs disabled.
C23_UnusableStorageDisablesCache ==
    app.op = "cache"
    => /\ ~app.raised
       /\ app.dir # "usable" => (app.cache # "None" /\ ~enabled)

\* C27: the cache that AppContext.cache creates has the configured
\* directory, ttl_seconds as default TTL, the configured enabled flag and,
\* for its store, a size limit of max_size_mb megabytes.
C27_CacheConfiguredFromConfig ==
    app.cache # "None"
    => /\ app.cache_dir = CacheDirName
       /\ app.default_ttl = app.config.ttl_seconds
       /\ enabled = app.config.enabled
       /\ enabled => app.size_limit = app.config.max_size_mb * 1024 * 1024

-----------------------------------------------------------------------------
(* Mapping store: stored mappings are kept *)

\* the four fields of a mapping that are set at creation
Created(mapping) ==
    <<mapping.ticket_key, mapping.commit_sha, mapping.commit_message,
      mapping.mapped_at>>

\* C24: over add_mapping, mark_synced, get_mappings_for_ticket and
\* get_unsynced_mappings, every stored mapping stays at its position in its
\* ticket's list with ticket_key, commit_sha, commit_message and mapped_at
\* unchanged (add_mapping of a present pair replaces nothing), and a stored
\* mapping changes only in a mark_synced call.
C24_StoredMappingsKept ==
    [][ \A t \in DOMAIN mappings :
          /\ t \in DOMAIN mappings'
          /\ Len(mappings'[t]) >= Len(mappings[t])
          /\ \A i \in 1..Len(mappings[t]) :
                /\ Created(mappings'[t][i]) = Created(mappings[t][i])
                /\ mappings'[t][i] # mappings[t][i]
                     => ( /\ last_map'.op = "mark_synced"
                          /\ last_map'.ticket_key = t
                          /\ last_map'.commit_sha = mappings[t][i].commit_sha )
      ]_vars

\* add_mapping was called for a pair already stored, after the time of the
\* stored record: the list still holds the record made at time 0, before a
\* second one
C24_Witness ==
    /\ last_add = "present"
    /\ now > 0
    /\ \E t \in DOMAIN mappings :
          /\ Len(mappings[t]) = 2
          /\ mappings[t][1].mapped_at = 0
          /\ mappings[t][1].commit_message = "feat"
          /\ mappings[t][2].mapped_at = now

-----------------------------------------------------------------------------
(* Mapping store: synced and synced_at *)

\* every mapping of the dict is synced exactly when it has a synced_at
SyncedIffSyncedAt(m) ==
    \A t \in DOMAIN m : \A i \in 1..Len(m[t]) :
        m[t][i].synced <=> m[t][i].synced_at.some

\* C29: in every store built from the empty one by add_mapping of new
\* mappings and mark_synced, saved and loaded, a mapping is synced exactly
\* when its synced_at is set; from_dict(to_dict(store)) keeps that; and no
\* call on the store turns a synced mapping back to unsynced.
C29_SyncedIffSyncedAtAndMonotone ==
    /\ [](SyncedIffSyncedAt(mappings))
    /\ [](\A ord \in KeyOrders(mappings) :
            SyncedIffSyncedAt(FromDictOf(ToDict(mappings, ord))))
    /\ [][ last_map'.op # "load"
           => \A t \in DOMAIN mappings : \A i \in 1..Len(mappings[t]) :
                 mappings[t][i].synced
                 => ( /\ t \in DOMAIN mappings'
                      /\ i <= Len(mappings'[t])
                      /\ mappings'[t][i].synced ) ]_vars

\* a mapping marked at time 1 stands beside one never marked, in a store
\* whose file has been written
C29_Witness ==
    /\ last_map.op = "mark_synced"
    /\ file.kind = "json"
    /\ Len(file.data) > 0
    /\ now = 1
    /\ \E t \in DOMAIN mappings : \E i \in 1..Len(mappings[t]) :
          /\ mappings[t][i].synced
          /\ mappings[t][i].synced_at = Some(1)
          /\ mappings[t][i].mapped_at = 0
    /\ \E t \in DOMAIN mappings : \E i \in 1..Len(mappings[t]) :
          /\ ~mappings[t][i].synced
          /\ mappings[t][i].synced_at = None

-----------------------------------------------------------------------------
(* find_related_tickets and suggest_ticket_from_branch: properties *)

\* the keys extract_ticket_keys finds in the text
KeysIn(text, arg) ==
    { ExtractTicketKeys(text, arg).result[k] :
        k \in 1..Len(ExtractTicketKeys(text, arg).result) }

\* the indices (from 0) of the messages in which extraction finds the key
IndicesOf(key, commit_messages, arg) ==
    { n - 1 : n \in { m \in 1..Len(commit_messages) :
                        key \in KeysIn(commit_messages[m], arg) } }

\* C25: find_related_tickets(commit_messages, patterns), when it returns,
\* has as keys exactly the ticket keys extracted from some message, and maps
\* each to the indices, ascending and without repetition, of exactly the
\* messages from which extract_ticket_keys extracts it; it returns whenever
\* extract_ticket_keys returns for every message.
C25_RelatedTicketsAreIndicesOfMessages ==
    derived.op = "find_related_tickets"
    => LET msgs == derived.commit_messages
           arg == derived.patterns
           tc == derived.related
       IN  /\ derived.raised = "none"
                <=> \A n \in 1..Len(msgs) :
                       ExtractTicketKeys(msgs[n], arg).raised = "none"
           /\ derived.raised = "none"
                => /\ DOMAIN tc =
                        UNION { KeysIn(msgs[n], arg) : n \in 1..Len(msgs) }
                   /\ \A key \in DOMAIN tc :
                         /\ Len(tc[key]) > 0
                         /\ { tc[key][j] : j \in 1..Len(tc[key]) }
                              = IndicesOf(key, msgs, arg)
                         /\ \A j \in 1..(Len(tc[key]) - 1) :
                               tc[key][j] < tc[key][j + 1]

\* two messages name PROJ-1, the second also ZED-9: PROJ-1 has both indices
C25_Witness ==
    /\ derived.op = "find_related_tickets"
    /\ derived.raised = "none"
    /\ Len(derived.commit_messages) = 2
    /\ DOMAIN derived.related = {"PROJ-1", "ZED-9"}
    /\ derived.related["PROJ-1"] = <<0, 1>>
    /\ derived.related["ZED-9"] = <<1>>

\* C26: suggest_ticket_from_branch(branch, patterns), when it returns,
\* returns None exactly when extract_ticket_keys finds no key in the branch
\* name, and otherwise the first key of the sorted extraction result; it
\* returns whenever extract_ticket_keys returns.
C26_SuggestionIsFirstSortedKey ==
    derived.op = "suggest_ticket_from_branch"
    => LET e == ExtractTicketKeys(derived.branch_name, derived.patterns)
       IN  /\ derived.raised = e.raised
           /\ derived.raised = "none"
                => /\ ~derived.suggested.some <=> Len(e.result) = 0
                   /\ derived.suggested.some
                        => /\ derived.suggested.key = e.result[1]
                           /\ derived.suggested.key
                                \in KeysIn(derived.branch_name, derived.patterns)
                           /\ \A k \in KeysIn(derived.branch_name,
                                              derived.patterns) :
                                 Rank(derived.suggested.key) <= Rank(k)

\* the branch name holds ZED-9 before proj-1; PROJ-1, first in sorted
\* order, is suggested
C26_Witness ==
    /\ derived.op = "suggest_ticket_from_branch"
    /\ derived.raised = "none"
    /\ derived.branch_name = <<"ZED-9", "proj-1">>
    /\ derived.suggested = SomeKey("PROJ-1")


-----------------------------------------------------------------------------
(* Cache.cached: properties *)

\* the store holds an unexpired row for the pair: a value is cached
HasCached(st, ns, key, t) ==
    /\ MakeKey(ns, key) \in DOMAIN st
    /\ st[MakeKey(ns, key)].expire_time > t

\* C28: on an enabled cache a call of a decorated function returns the
\* cached value without invoking the function when one is cached, and
\* otherwise invokes the function once, stores its result under the key and
\* returns it; a second call with the same key within the TTL of the first
\* does not invoke the function and returns what the first returned.
C28_CachedIsReadThrough ==
    [][ (enabled /\ IsCall("cached"))
        => /\ HasCached(store, last'.ns, last'.key, now)
                => /\ last'.count = 0
                   /\ last'.result = store[MakeKey(last'.ns, last'.key)].value
                   /\ store' = store
           /\ ~HasCached(store, last'.ns, last'.key, now)
                => /\ last'.count = 1
                   /\ last'.result = last'.arg
                   /\ MakeKey(last'.ns, last'.key) \in DOMAIN store'
                   /\ store'[MakeKey(last'.ns, last'.key)].value = last'.arg
           /\ ( /\ last.op = "cached"
                /\ last.count = 1
                /\ last'.ns = last.ns
                /\ last'.key = last.key
                /\ now < last.at + EffectiveTTL(last.ttl) )
                => (last'.count = 0 /\ last'.result = last.result) ]_vars

-----------------------------------------------------------------------------
(* Retry: termination *)

\* the attempt met a transient error
TransientFailure(o) == RetryIfExceptionType(AttemptException(client, o))

\* C30: a retry-wrapped call sends at most MAX_RETRIES requests and ends in
\* Succeeded or TerminalFailure; an attempt that succeeds, the first or one
\* after transient failures only, ends the call in Succeeded and no request
\* follows it; and the call returns to Attempting only from RetryableFailure
\* with attempts remaining.
C30_RetryTerminatesWithinMaxRetries ==
    /\ [](Wrapped(client, method)
          => /\ Sent <= MAX_RETRIES
             /\ attempt_number <= MAX_RETRIES
             /\ retry_state = "Succeeded"
                  => /\ Sent >= 1
                     /\ AttemptException(client, history[Sent]) = "none"
                     /\ \A i \in 1..(Sent - 1) : TransientFailure(history[i]))
    /\ [][ Wrapped(client, method)
           => /\ ( /\ retry_state = "Attempting"
                   /\ Len(history') = Len(history) + 1
                   /\ AttemptException(client, history'[Len(history')]) = "none" )
                   => retry_state' = "Succeeded"
              /\ retry_state = "Succeeded" => Len(history') <= Len(history)
              /\ (retry_state # "Attempting" /\ retry_state' = "Attempting")
                   => ( /\ retry_state = "RetryableFailure"
                        /\ attempt_number < MAX_RETRIES
                        /\ attempt_number' = attempt_number + 1 ) ]_vars
    /\ (retry_state = "Attempting" /\ Wrapped(client, method))
         ~> (retry_state \in { "Succeeded", "TerminalFailure" })

\* the third attempt succeeded after two transient failures
C30_Witness ==
    /\ Wrapped(client, method)
    /\ retry_state = "Succeeded"
    /\ Sent = MAX_RETRIES
    /\ TransientFailure(history[1])
    /\ TransientFailure(history[2])
    /\ Len(slept) = 2

====
